---- MODULE Spec2Model ----
(***************************************************************************)
(* NetBox -> WhatsUp Gold synchronisation: the signal handlers of          *)
(* netbox_wug_sync/signals.py driving the WUGAPIClient of                   *)
(* netbox_wug_sync/wug_client.py.                                           *)
(*                                                                         *)
(* Spec       the event trigger layer: device save / delete events, the    *)
(*            pushes and removes they run, the WUGDevice and WUGSyncLog     *)
(*            tables.  What each client call gets from _make_request is an *)
(*            input.                                                        *)
(* SpecClient one WUGAPIClient: _make_request, _ensure_authenticated and    *)
(*            _authenticate, one HTTP exchange per step.                    *)
(***************************************************************************)
EXTENDS Integers, Sequences, FiniteSets, TLC

(***************************************************************************)
(* Bounds of the model.                                                    *)
(***************************************************************************)
NumConnections == 2
NumDevices == 2
MaxEvents == 2
MaxRequests == 2
MaxTicks == 1
MaxCalls == 2
MaxPushes == 2
MaxPasses == 2

Connections == 1..NumConnections
Devices == 1..NumDevices

(***************************************************************************)
(* Python values.  None is the string "None"; a primary_ip4 of None is the *)
(* empty address.  A value whose type the code relies on carries a tag:    *)
(* calling .get on anything but a dict raises AttributeError.              *)
(***************************************************************************)
None == "None"
NoIP == <<>>
NoPk == 0

PyDict(d) == [type |-> "dict", d |-> d]
PyList(l) == [type |-> "list", l |-> l]
PyBool(b) == [type |-> "bool", b |-> b]

\* dict.get(k): the value under k, None when the key is absent
Get(d, k) == IF k \in DOMAIN d THEN d[k] ELSE None
\* dict.get(k, default)
GetDefault(d, k, default) == IF k \in DOMAIN d THEN d[k] ELSE default
\* a or b, on strings and None
PyOr(a, b) == IF a # None /\ a # "" THEN a ELSE b

Min(S) == CHOOSE m \in S : \A n \in S : m <= n

\* str.split(sep)[0]: the part before the first separator
SplitFirst(s, sep) ==
    LET idx == {i \in 1..Len(s) : s[i] = sep}
    IN  IF idx = {} THEN s ELSE SubSeq(s, 1, Min(idx) - 1)

\* the startswith lookup on the host part of an address
StartsWith(s, p) == Len(p) <= Len(s) /\ SubSeq(s, 1, Len(p)) = p

(***************************************************************************)
(* Addresses, as character sequences: "10.5/24" and "10.50/24".            *)
(***************************************************************************)
IP5 == <<"1", "0", ".", "5">>
IP50 == <<"1", "0", ".", "5", "0">>
Hosts == {IP5, IP50}
Cidr(h) == h \o <<"/", "2", "4">>
Addresses == {Cidr(h) : h \in Hosts}

STATUS_ACTIVE == "active"
Statuses == {STATUS_ACTIVE, "offline"}

(***************************************************************************)
(* What _make_request gives its caller: the parsed JSON body of a 2xx      *)
(* response, or one of the two exceptions of the client.                   *)
(***************************************************************************)
Json(body) == [kind |-> "json", body |-> body]
Raise(exc) == [kind |-> "raise", exc |-> exc]
Return(v) == [kind |-> "return", value |-> v]
NoCall == [kind |-> "nocall"]

ClientErrors == {Raise("WUGAPIException"), Raise("WUGAuthenticationError")}

AddById == Json(PyDict([device_id |-> "w1"]))
AddByOtherId == Json(PyDict([id |-> "w2"]))
ScanStarted == Json(PyDict([scan_id |-> "s1"]))
ScanNoId == Json(PyDict([status |-> "queued"]))
ListBare == Json(PyList(<<>>))
ListWrapped == Json(PyDict([devices |-> <<[id |-> "w9", ipAddress |-> IP5]>>]))
DeleteResponses == {Json(PyDict([status |-> "deleted"]))} \cup ClientErrors

\* the responses the monitoring system gives to one push, call by call; a
\* call that is not reached has no response
Script(add, scan, list) == [add |-> add, scan |-> scan, list |-> list]
Scripts ==
    { Script(Raise("WUGAPIException"), NoCall, NoCall),
      Script(AddById, ScanNoId, NoCall),
      Script(AddByOtherId, Raise("WUGAPIException"), NoCall),
      Script(AddById, ScanStarted, ListBare),
      Script(AddByOtherId, ScanStarted, ListWrapped),
      Script(AddById, ScanStarted, Raise("WUGAPIException")) }

VARIABLES
    devices,       \* the Device table of the source inventory
    connections,   \* WUGConnection.is_active, per connection
    wugDevices,    \* the WUGDevice table (SyncedDevice)
    syncLogs,      \* the WUGSyncLog table, in creation order
    nextPk,        \* primary key of the next WUGDevice row
    events,        \* number of events handled
    last           \* the event handled last and the attempts it made

(***************************************************************************)
(* WUGAPIClient methods, as functions of what _make_request gives them.    *)
(* Each returns a value or raises; "except WUGAPIException: raise" lets    *)
(* both client exceptions through, any other exception is wrapped.         *)
(***************************************************************************)
\* a mutated add: the success flag of the response is handed on
add_device_by_ip_PassFlag(ip_address, http) ==
    IF http.kind = "raise" THEN Raise(http.exc)
    ELSE IF http.body.type # "dict" THEN Raise("WUGAPIException")
    ELSE Return(PyDict([ success |-> GetDefault(http.body.d, "success", TRUE),
                         device_id |-> PyOr(Get(http.body.d, "device_id"),
                                            Get(http.body.d, "id")),
                         message |-> GetDefault(http.body.d, "message",
                                                "Device added") ]))

add_device_by_ip(ip_address, http) ==
    IF http.kind = "raise" THEN Raise(http.exc)
    ELSE IF http.body.type # "dict" THEN Raise("WUGAPIException")
    ELSE Return(PyDict([ success |-> TRUE,
                         device_id |-> PyOr(Get(http.body.d, "device_id"),
                                            Get(http.body.d, "id")),
                         message |-> "Device added" ]))

scan_ip_address(ip_address, http) ==
    IF http.kind = "raise" THEN Raise(http.exc)
    ELSE IF http.body.type # "dict" THEN Raise("WUGAPIException")
    ELSE LET scan_id == PyOr(Get(http.body.d, "scan_id"), Get(http.body.d, "id"))
         IN  IF scan_id = None \/ scan_id = ""
             THEN Raise("WUGAPIException")
             ELSE Return(PyDict([ success |-> TRUE, scan_id |-> scan_id,
                                  message |-> "Scan initiated" ]))

\* the per-device detail merge is best-effort and keeps the entries and
\* their order; the value returned is always a list
get_devices(http) ==
    IF http.kind = "raise" THEN Raise(http.exc)
    ELSE IF http.body.type = "dict"
         THEN Return(PyList(GetDefault(http.body.d, "devices", <<>>)))
         ELSE Return(PyList(http.body.l))

\* get_device_details: what _make_request gives, or its exception
get_device_details(device_id, http) ==
    IF http.kind = "raise" THEN Raise(http.exc) ELSE Return(http.body)

\* device.update(detail): the fields of detail replace those of device
Update(device, detail) ==
    [k \in DOMAIN device \cup DOMAIN detail |->
        IF k \in DOMAIN detail THEN detail[k] ELSE device[k]]

\* one iteration of the detail loop of get_devices: the entry appended to
\* detailed_devices.  An entry without an id is not looked up; an exception
\* of the lookup is logged; a detail that is a JSON array adds nothing
WithDetail(device, http) ==
    LET device_id == PyOr(Get(device, "id"), Get(device, "deviceId"))
        detail == get_device_details(device_id, http)
    IN  IF device_id = None \/ device_id = "" THEN device
        ELSE IF detail.kind = "raise" THEN device
        ELSE IF detail.value.type = "dict" THEN Update(device, detail.value.d)
        ELSE device

\* a mutated listing: an exception of a detail lookup ends the listing
get_devices_include_details_Abort(http, details) ==
    IF http.kind = "raise" THEN Raise(http.exc)
    ELSE LET device_list == IF http.body.type = "dict"
                        THEN GetDefault(http.body.d, "devices", <<>>)
                        ELSE http.body.l
         IN  IF \E i \in 1..Len(device_list) : details[i].kind = "raise"
             THEN Raise("WUGAPIException")
             ELSE Return(PyList([i \in 1..Len(device_list) |->
                                    WithDetail(device_list[i], details[i])]))

\* get_devices(include_details=True): details[i] is what _make_request gives
\* the lookup of the i-th entry
get_devices_include_details(http, details) ==
    IF http.kind = "raise" THEN Raise(http.exc)
    ELSE LET device_list == IF http.body.type = "dict"
                        THEN GetDefault(http.body.d, "devices", <<>>)
                        ELSE http.body.l
         IN  Return(PyList([i \in 1..Len(device_list) |->
                                WithDetail(device_list[i], details[i])]))

\* get_device_groups: a JSON object gives what it holds under groups
get_device_groups(http) ==
    IF http.kind = "raise" THEN Raise(http.exc)
    ELSE IF http.body.type = "dict"
         THEN Return(PyList(GetDefault(http.body.d, "groups", <<>>)))
         ELSE Return(http.body)

delete_device(device_id, http) ==
    IF http.kind = "raise" THEN Raise(http.exc) ELSE Return(PyBool(TRUE))

\* probe: whether the two session.get calls before the request went through
test_connection(probe, http) ==
    IF probe = "raise"
    THEN Return(PyDict([success |-> FALSE, message |-> "Unexpected error"]))
    ELSE IF http.kind = "raise"
    THEN IF http.exc = "WUGAuthenticationError"
         THEN Return(PyDict([success |-> FALSE, message |-> "Authentication failed"]))
         ELSE Return(PyDict([success |-> FALSE, message |-> "API error"]))
    ELSE Return(PyDict([success |-> TRUE, message |-> "Connection successful",
                        server_info |-> http.body]))

(***************************************************************************)
(* WUGAPIClient: the token, and what one HTTP exchange does to a request.  *)
(* An HTTP exchange ends in a response (status, body) or in a timeout or   *)
(* connection error.  A body is a JSON object, a JSON array, or not JSON.  *)
(***************************************************************************)
NoExpiry == -1      \* _token_expires = None
NotJson == [type |-> "text"]
EmptyDict == PyDict(<<>>)

Response(status, body) == [kind |-> "response", status |-> status, body |-> body]
TimedOut == [kind |-> "timeout"]
ConnectionFailed == [kind |-> "connection"]
Is401(resp) == resp.kind = "response" /\ resp.status = 401

TargetResponses ==
    { Response(200, PyDict([id |-> "w1"])), Response(200, NotJson),
      Response(401, NotJson), Response(500, NotJson), TimedOut }
AuthResponses ==
    { Response(200, PyDict([token |-> "t1"])),
      Response(200, PyDict([access_token |-> "t2", expires_in |-> 120])),
      Response(200, PyDict([token |-> ""])),
      Response(200, PyDict([access_token |-> ""])),
      Response(200, PyList(<<>>)),
      Response(401, NotJson), Response(500, NotJson), TimedOut }

\* a mutated candidate list: the Basic candidates come first
auth_attempts_BasicFirst ==
    << <<"/api/v1/token", "basic">>, <<"/api/token", "basic">>,
       <<"/api/v1/token", "json">>, <<"/api/token", "json">>,
       <<"/auth/token", "json">>, <<"/NmConsole/api/token", "json">> >>

\* the candidates of _authenticate, in the order they are tried
auth_attempts ==
    << <<"/api/v1/token", "json">>, <<"/api/token", "json">>,
       <<"/api/v1/token", "basic">>, <<"/api/token", "basic">>,
       <<"/auth/token", "json">>, <<"/NmConsole/api/token", "json">> >>

\* a mutated handling: a failure of the transport gives an empty result
HandleResponse_Swallow(resp) ==
    IF resp.kind \in {"timeout", "connection"} THEN Json(EmptyDict)
    ELSE IF resp.status >= 400 THEN Raise("WUGAPIException")
    ELSE IF resp.body.type = "text" THEN Json(EmptyDict)
    ELSE Json(resp.body)

\* raise_for_status, response.json() and the except clauses of _make_request
\* and _make_request_raw
HandleResponse(resp) ==
    IF resp.kind \in {"timeout", "connection"} THEN Raise("WUGAPIException")
    ELSE IF resp.status >= 400 THEN Raise("WUGAPIException")
    ELSE IF resp.body.type = "text" THEN Json(EmptyDict)
    ELSE Json(resp.body)

Truthy(v) == v # None /\ v # ""

\* token_expires counts whole seconds (its microsecond part is always 0), so
\* the clock is at or past it iff its whole seconds are
_is_token_expired(c) ==
    \/ c.token_expires = NoExpiry
    \/ c.now >= c.token_expires

\* a mutated expiry: the 60 seconds are not taken off
_token_expires_NoMargin(c, response) ==
    LET expires_in == GetDefault(response, "expires_in", 3600)
    IN  c.now + expires_in

\* the expiry stored with a token: datetime.now(timezone.utc)
\* .replace(microsecond=0) + timedelta(seconds=expires_in - 60), in whole
\* seconds (c.microsecond is dropped by the replace)
_token_expires(c, response) ==
    LET expires_in == GetDefault(response, "expires_in", 3600)
    IN  c.now + (expires_in - 60)

\* _ensure_authenticated: _authenticate is entered, or the request goes on
_ensure_authenticated(c, goOn) ==
    IF c.token = None \/ _is_token_expired(c)
    THEN [c EXCEPT !.pc = "auth", !.idx = 1, !.returnTo = goOn,
                   !.attempts = <<>>, !.last_error = FALSE,
                   !.offered = <<>>,
                   !.auths = @ + 1]
    ELSE [c EXCEPT !.pc = goOn]

\* a mutated 401 branch: the token is kept
TokenAfter401_Kept(token) == token

\* "Clear token and retry once": self._token = None
TokenAfter401(token) == None

\* a mutated loop: the first failing candidate ends it
AfterFailure_Raise(idx) == Len(auth_attempts) + 1

\* "continue", or the next iteration after "No token returned"
AfterFailure(idx) == idx + 1

\* the candidate at c.idx did not give a token
CandidateFailed(c) ==
    IF AfterFailure(c.idx) <= Len(auth_attempts)
    THEN [c EXCEPT !.idx = AfterFailure(c.idx)]
    ELSE [c EXCEPT !.pc = "idle", !.raisedBy = "_authenticate",
                   !.result = Raise("WUGAuthenticationError")]

\* what a candidate's response carries under token or access_token: the
\* token, "" when the key is there without a token, None when there is no
\* such key or no JSON object; client.offered keeps it for every candidate
\* tried
TokenField(resp) ==
    LET response == HandleResponse(resp)
    IN  IF response.kind = "raise" \/ response.body.type # "dict" THEN None
        ELSE LET token == PyOr(Get(response.body.d, "token"),
                               Get(response.body.d, "access_token"))
             IN  IF Truthy(token) THEN token
                 ELSE IF \/ "token" \in DOMAIN response.body.d
                         \/ "access_token" \in DOMAIN response.body.d
                      THEN ""
                      ELSE None

\* a mutated loop: the return after a token is missing, the next candidate
\* is tried
_authenticate_NoReturn(c, resp) ==
    LET candidate == auth_attempts[c.idx]
        tried == [c EXCEPT !.attempts = Append(@, candidate),
                           !.offered = Append(@, TokenField(resp))]
        response == HandleResponse(resp)
        token == IF response.kind = "raise" \/ response.body.type # "dict"
                 THEN c.token
                 ELSE PyOr(Get(response.body.d, "token"),
                           Get(response.body.d, "access_token"))
        stored == [tried EXCEPT !.token = token]
    IN  IF c.idx < Len(auth_attempts)
        THEN [stored EXCEPT !.idx = c.idx + 1]
        ELSE IF Truthy(token)
             THEN [stored EXCEPT !.pc = c.returnTo]
             ELSE CandidateFailed(stored)

\* one iteration of the loop of _authenticate, given the candidate's exchange
_authenticate(c, resp) ==
    LET candidate == auth_attempts[c.idx]
        tried == [c EXCEPT !.attempts = Append(@, candidate),
                           !.offered = Append(@, TokenField(resp))]
        \* a json candidate goes through _make_request(authenticated=False),
        \* whose 401 branch clears the token
        c1 == IF candidate[2] = "json" /\ Is401(resp)
              THEN [tried EXCEPT !.token = TokenAfter401(@)]
              ELSE tried
        response == HandleResponse(resp)
    IN  IF response.kind = "raise" \/ response.body.type # "dict"
        THEN CandidateFailed([c1 EXCEPT !.last_error = TRUE])
        ELSE LET token == PyOr(Get(response.body.d, "token"),
                               Get(response.body.d, "access_token"))
             IN  IF Truthy(token)
                 THEN [c1 EXCEPT !.token = token,
                                 !.token_expires = _token_expires(c, response.body.d),
                                 !.pc = c.returnTo]
                 ELSE CandidateFailed([c1 EXCEPT !.token = token])

\* the request is over for its caller
Finished(c, result, raisedBy) ==
    [c EXCEPT !.pc = "idle", !.result = result, !.raisedBy = raisedBy]

\* _make_request(authenticated=True): the first exchange with the endpoint
FirstExchange(c, resp) ==
    LET sent == [c EXCEPT !.statuses = Append(@, resp),
                          !.bearers = Append(@, c.token)]
    IN  IF Is401(resp)
        THEN _ensure_authenticated([sent EXCEPT !.token = TokenAfter401(@),
                                                !.before401 = c.auths],
                                   "retry")
        ELSE Finished(sent, HandleResponse(resp), "_make_request")

\* _make_request(authenticated=True): the exchange after the re-authentication
RetryExchange(c, resp) ==
    LET sent == [c EXCEPT !.statuses = Append(@, resp),
                          !.bearers = Append(@, c.token)]
    IN  IF Is401(resp)
        THEN Finished(sent, Raise("WUGAuthenticationError"), "_make_request")
        ELSE Finished(sent, HandleResponse(resp), "_make_request")

(***************************************************************************)
(* The tables.  db is the state a handler threads through its calls:       *)
(* wug (WUGDevice rows), logs (WUGSyncLog rows), pk (next WUGDevice key),  *)
(* calls (the client methods called so far by the handler).                *)
(***************************************************************************)
SyncLog(conn, sync_type, status, discovered, created, updated, errors) ==
    [ connection |-> conn, sync_type |-> sync_type, status |-> status,
      devices_discovered |-> discovered, devices_created |-> created,
      devices_updated |-> updated, devices_errors |-> errors ]

WithLog(db, log) == [db EXCEPT !.logs = Append(@, log)]
WithCall(db, method, conn) == [db EXCEPT !.calls = Append(@, method)]

\* WUGDevice.objects.filter(connection=c, netbox_device_id=d).first()
ExistingWugDevice(wug, conn, dev) ==
    LET rows == {r \in wug : r.connection = conn /\ r.netbox_device_id = dev}
    IN  IF rows = {} THEN NoPk ELSE Min({r.pk : r \in rows})

RowOf(wug, pk) == CHOOSE r \in wug : r.pk = pk

\* a mutated choice of action: the WUGDevice is not looked at
PushAction_IgnoreExisting(existing, is_new_device) ==
    IF ~is_new_device THEN "update" ELSE "create"

\* a mutated choice of action: every push counts as a create
PushAction_AlwaysCreate(existing, is_new_device) == "create"

PushAction(existing, is_new_device) ==
    IF existing # NoPk /\ ~is_new_device THEN "update" ELSE "create"

(***************************************************************************)
(* check_ip_conflicts_after_scan                                           *)
(***************************************************************************)
NetboxConflicts(devs, ip_address, dev) ==
    {d \in Devices \ {dev} :
        devs[d].state = "present" /\ StartsWith(devs[d].addr, ip_address)}

\* the entries of the monitoring system's list that collide with ip_address
WugConflicts(wug, listing, ip_address, dev, conn) ==
    IF listing.kind = "raise" THEN {}
    ELSE IF listing.value.type # "dict" THEN {}      \* .get raises AttributeError
    ELSE IF ~GetDefault(listing.value.d, "success", FALSE) THEN {}
    ELSE LET device_list == GetDefault(listing.value.d, "devices", <<>>)
             device_ip(w) == IF "ipAddress" \in DOMAIN w /\ w.ipAddress # NoIP
                             THEN w.ipAddress
                             ELSE GetDefault(w, "networkAddress", NoIP)
             device_id(w) == PyOr(Get(w, "id"), Get(w, "deviceId"))
             ours == ExistingWugDevice(wug, conn, dev)
         IN  {i \in 1..Len(device_list) :
                /\ device_ip(device_list[i]) = ip_address
                /\ \/ ours = NoPk
                   \/ RowOf(wug, ours).wug_device_id # device_id(device_list[i])}

\* a mutated conflict check: a failure of the fetch ends the check
check_ip_conflicts_after_scan_FetchAborts(db, devs, ip_address, dev, conn, http) ==
    LET netbox == NetboxConflicts(devs, ip_address, dev)
        db1 == [WithCall(db, "get_devices", conn) EXCEPT
                    !.conflicts = {[type |-> "netbox", id |-> d] : d \in netbox}]
    IN  IF get_devices(http).kind # "raise" /\ Cardinality(netbox) > 0
        THEN WithLog(db1, SyncLog(conn, "ip_conflict_check", "warning",
                                  Cardinality(netbox) + 1, 0, 0, 0))
        ELSE db1

check_ip_conflicts_after_scan(db, devs, ip_address, dev, conn, http) ==
    LET netbox == NetboxConflicts(devs, ip_address, dev)
        wug == WugConflicts(db.wug, get_devices(http), ip_address, dev, conn)
        db1 == [WithCall(db, "get_devices", conn) EXCEPT
                    !.conflicts = {[type |-> "netbox", id |-> d] : d \in netbox}
                                  \cup {[type |-> "wug", id |-> i] : i \in wug}]
        conflicts_found == Cardinality(netbox) + Cardinality(wug)
    IN  IF conflicts_found > 0
        THEN WithLog(db1, SyncLog(conn, "ip_conflict_check", "warning",
                                  conflicts_found + 1, 0, 0, 0))
        ELSE db1

(***************************************************************************)
(* The session of a client.  db.opened counts the sessions created so far, *)
(* db.open holds the ones not yet closed; a with block creates the client  *)
(* (__init__ creates its requests.Session) and __exit__ closes it.         *)
(***************************************************************************)
__init__(db) == [db EXCEPT !.opened = @ + 1, !.open = @ \cup {db.opened + 1}]

\* a mutated close: the session stays open
close_Leak(db, session) == db

close(db, session) == [db EXCEPT !.open = @ \ {session}]

__exit__(db, session) == close(db, session)

(***************************************************************************)
(* sync_device_to_wug: the push of one device to one connection.           *)
(***************************************************************************)
\* a mutated scan step: an exception of the scan is recorded as an error of
\* the push
ScanAfterCreate_FailsPush(db, devs, inst, conn, ip_address, inp) ==
    LET db1 == WithCall(db, "scan_ip_address", conn)
        scan_result == scan_ip_address(ip_address, inp.scan)
    IN  IF scan_result.kind = "raise"
        THEN WithLog(db1, SyncLog(conn, "netbox_to_wug", "error", 1, 0, 0, 1))
        ELSE IF GetDefault(scan_result.value.d, "success", FALSE)
             THEN check_ip_conflicts_after_scan(db1, devs, ip_address, inst.id,
                                                conn, inp.list)
             ELSE db1

\* the scan of a newly added device, and the conflict check after it
ScanAfterCreate(db, devs, inst, conn, ip_address, inp) ==
    LET db1 == WithCall(db, "scan_ip_address", conn)
        scan_result == scan_ip_address(ip_address, inp.scan)
    IN  IF scan_result.kind = "raise" THEN db1
        ELSE IF GetDefault(scan_result.value.d, "success", FALSE)
             THEN check_ip_conflicts_after_scan(db1, devs, ip_address, inst.id,
                                                conn, inp.list)
             ELSE db1

\* the rows a mutated upsert would leave: a row is created whether or not
\* the pair already has one
UpsertWugDevice_AlwaysCreate(db, inst, conn, ip_address, existing, wug_device_id) ==
    [db EXCEPT
        !.wug = db.wug \cup
            {[ pk |-> db.pk, connection |-> conn, wug_device_id |-> wug_device_id,
               netbox_device_id |-> inst.id, device_name |-> inst.name,
               ip_address |-> ip_address, sync_status |-> "success",
               error_message |-> "" ]},
        !.pk = db.pk + 1]

\* the rows a mutated upsert would leave: the new row is left pending
UpsertWugDevice_Pending(db, inst, conn, ip_address, existing, wug_device_id) ==
    LET old == RowOf(db.wug, existing)
    IN  IF existing # NoPk
        THEN [db EXCEPT !.wug = (db.wug \ {old}) \cup
                    {[old EXCEPT !.wug_device_id = wug_device_id,
                                 !.sync_status = "success"]}]
        ELSE [db EXCEPT
                !.wug = db.wug \cup
                    {[ pk |-> db.pk, connection |-> conn,
                       wug_device_id |-> wug_device_id,
                       netbox_device_id |-> inst.id, device_name |-> inst.name,
                       ip_address |-> ip_address, sync_status |-> "pending",
                       error_message |-> "" ]},
                !.pk = db.pk + 1]

\* "Create or update WUGDevice record"
UpsertWugDevice(db, inst, conn, ip_address, existing, wug_device_id) ==
    LET old == RowOf(db.wug, existing)
    IN  IF existing # NoPk
        THEN [db EXCEPT !.wug = (db.wug \ {old}) \cup
                    {[old EXCEPT !.wug_device_id = wug_device_id,
                                 !.sync_status = "success"]}]
        ELSE [db EXCEPT
                !.wug = db.wug \cup
                    {[ pk |-> db.pk, connection |-> conn,
                       wug_device_id |-> wug_device_id,
                       netbox_device_id |-> inst.id, device_name |-> inst.name,
                       ip_address |-> ip_address, sync_status |-> "success",
                       error_message |-> "" ]},
                !.pk = db.pk + 1]

\* result.get('success') is true
PushOnSuccess(db, devs, inst, conn, ip_address, existing, action, result, inp) ==
    LET wug_device_id == PyOr(Get(result, "deviceId"), Get(result, "id"))
        upserted == UpsertWugDevice(db, inst, conn, ip_address, existing, wug_device_id)
        scanned == IF action = "create"
                   THEN ScanAfterCreate(upserted, devs, inst, conn, ip_address, inp)
                   ELSE upserted
    IN  WithLog(scanned,
                SyncLog(conn, "netbox_to_wug", "completed", 1,
                        IF action = "create" THEN 1 ELSE 0,
                        IF action = "update" THEN 1 ELSE 0, 0))

\* the result carries success = false
PushOnFailure(db, conn, existing, result) ==
    LET error_msg == GetDefault(result, "message", "Unknown error")
        old == RowOf(db.wug, existing)
        marked ==
            IF existing # NoPk
            THEN [db EXCEPT !.wug = (db.wug \ {old}) \cup
                        {[old EXCEPT !.sync_status = "failed",
                                     !.error_message = error_msg]}]
            ELSE db
    IN  WithLog(marked, SyncLog(conn, "netbox_to_wug", "failed", 1, 0, 0, 1))

\* a mutated exception path: nothing is recorded
PushOnException_NoLog(db, conn) == db

\* a mutated exception path: the exception is recorded and raised again
PushOnException_Reraise(db, conn) ==
    [WithLog(db, SyncLog(conn, "netbox_to_wug", "error", 1, 0, 0, 1))
        EXCEPT !.escaped = "Exception"]

\* the client raised
PushOnException(db, conn) ==
    WithLog(db, SyncLog(conn, "netbox_to_wug", "error", 1, 0, 0, 1))

\* sync_device_to_wug from the line after its lookup: existing is the key of
\* the row the lookup returned, NoPk when it returned None
PushAfterLookup(db, devs, inst, conn, ip_address, is_new_device, inp, existing) ==
    LET action == PushAction(existing, is_new_device)
        client0 == __init__([db EXCEPT !.action = action])
        session == client0.opened
        db1 == WithCall(client0, "add_device_by_ip", conn)
        result == add_device_by_ip(ip_address, inp.add)
    IN  IF result.kind = "raise"
        THEN PushOnException(__exit__(db1, session), conn)
        ELSE __exit__(IF GetDefault(result.value.d, "success", FALSE)
                      THEN PushOnSuccess(db1, devs, inst, conn, ip_address,
                                         existing, action, result.value.d, inp)
                      ELSE PushOnFailure(db1, conn, existing, result.value.d),
                      session)

sync_device_to_wug(db, devs, inst, conn, ip_address, is_new_device, inp) ==
    PushAfterLookup(db, devs, inst, conn, ip_address, is_new_device, inp,
                    ExistingWugDevice(db.wug, conn, inst.id))

(***************************************************************************)
(* remove_device_from_wug: delete_device returns a bool, and .get on it    *)
(* raises AttributeError inside the try block.                             *)
(***************************************************************************)
RemoveOnSuccess(db, row) ==
    [ WithLog(db, SyncLog(row.connection, "netbox_to_wug", "completed", 1, 0, 0, 0))
        EXCEPT !.wug = db.wug \ {row} ]

remove_device_from_wug(db, row, http) ==
    LET client0 == __init__(db)
        session == client0.opened
        db1 == WithCall(client0, "delete_device", row.connection)
        result == delete_device(row.wug_device_id, http)
    IN  __exit__(IF result.kind = "raise" THEN db1
                 ELSE IF result.value.type # "dict" THEN db1
                 ELSE IF GetDefault(result.value.d, "success", FALSE)
                      THEN RemoveOnSuccess(db1, row)
                      ELSE db1,
                 session)

(***************************************************************************)
(* The handlers.  A handler runs to its end before the next event is       *)
(* taken: handler holds its position, the connections (or WUGDevice rows)  *)
(* its loop has still to visit.  last records every iteration (attempt):   *)
(* syncLogs[logsFrom+1 .. logsTo] are the log rows the attempt wrote; for  *)
(* the latest attempt also the WUGDevice rows of its pair before and after *)
(* and the client methods it called.                                       *)
(***************************************************************************)
RECURSIVE SetToSeq(_)
SetToSeq(S) == IF S = {} THEN <<>> ELSE <<Min(S)>> \o SetToSeq(S \ {Min(S)})

\* the WUGDevice rows of one (connection, source device) pair
PairRows(wug, conn, dev) ==
    {r \in wug : r.connection = conn /\ r.netbox_device_id = dev}

\* what last keeps of every attempt of the handler
Attempt(dev, conn, remote, before, after) ==
    [ device |-> dev, connection |-> conn, remote |-> remote,
      logsFrom |-> Len(before.logs), logsTo |-> Len(after.logs) ]

\* a mutated gate: the device status is not looked at
SaveGate_AnyStatus(inst, active) ==
    /\ inst.primary_ip4 # NoIP
    /\ active # {}

\* the eligibility gate of device_saved_handler
SaveGate(inst, active) ==
    /\ inst.primary_ip4 # NoIP
    /\ inst.status = STATUS_ACTIVE
    /\ active # {}

\* connections = WUGConnection.objects.filter(is_active=True), when the gate passes
device_saved_handler(inst, conns) ==
    LET active == {c \in Connections : conns[c]}
    IN  IF SaveGate(inst, active) THEN SetToSeq(active) ELSE <<>>

\* a mutated query: only the first WUGDevice of the device is taken
device_deleted_handler_First(wug, dev) ==
    LET pks == {r.pk : r \in {q \in wug : q.netbox_device_id = dev}}
    IN  IF pks = {} THEN <<>> ELSE <<Min(pks)>>

\* wug_devices = WUGDevice.objects.filter(netbox_device_id=instance.id)
device_deleted_handler(wug, dev) ==
    SetToSeq({r.pk : r \in {q \in wug : q.netbox_device_id = dev}})

\* a mutated loop: it is left after the first entry
LoopRest_Break(queue, raised) == <<>>

\* for ...: try: <attempt> except Exception: logger.error(...)
\* the loop goes on to the next entry whether or not the attempt raised
LoopRest(queue, raised) == Tail(queue)

Names == {"sw"}
Absent == [state |-> "absent", addr |-> NoIP]
Deleted == [state |-> "deleted", addr |-> NoIP]
NoInst == [id |-> 0, name |-> "", primary_ip4 |-> NoIP, status |-> "offline"]

VARIABLE handler   \* the handler in progress: op, queue, instance, created
\* one WUGAPIClient and the request it is making: pc is the position in
\* _make_request, idx the candidate _authenticate is at, attempts the
\* candidates it has tried, statuses the exchanges with the endpoint of the
\* request, auths the calls of _authenticate (before401: those made before
\* the first 401), result and raisedBy what the caller got and from where
VARIABLE client
\* the public client methods a caller has invoked, with what each gave back
VARIABLE returned
\* one connection on its own: its tables, the Device table, and the latest
\* push with the rows before and after it
VARIABLE push
\* the manual sync: the WUGSyncLog rows it wrote, the position of
\* trigger_sync_view in the request it is handling, and its last response
VARIABLE manual

signalVars == <<devices, connections, wugDevices, syncLogs, nextPk, events, last, handler>>
\* the state the signal handlers leave alone
besideSignals == <<client, returned, push, manual>>
\* the state the client's request handling leaves alone
besideClient == <<signalVars, returned, push, manual>>
vars == <<signalVars, client, returned, push, manual>>

Db == [wug |-> wugDevices, logs |-> syncLogs, pk |-> nextPk, calls |-> <<>>,
       escaped |-> None, opened |-> 0, open |-> {}, action |-> None,
       conflicts |-> {}]

Idle == handler.queue = <<>>

Started(op, inst, created, queue) ==
    /\ handler' = [op |-> op, queue |-> queue, inst |-> inst, created |-> created]
    /\ events' = events + 1
    /\ UNCHANGED besideSignals
    /\ last' = [ op |-> op, inst |-> inst, created |-> created, attempts |-> <<>>,
                 wugBefore |-> wugDevices, logsBefore |-> Len(syncLogs),
                 rowsBefore |-> {}, rowsAfter |-> {}, calls |-> <<>> ]

Stepped(attempt, after, raised) ==
    /\ wugDevices' = after.wug
    /\ syncLogs' = after.logs
    /\ nextPk' = after.pk
    /\ last' = [last EXCEPT
                    !.attempts = Append(@, attempt),
                    !.rowsBefore = PairRows(wugDevices, attempt.connection, attempt.device),
                    !.rowsAfter = PairRows(after.wug, attempt.connection, attempt.device),
                    !.calls = after.calls]
    /\ handler' = [handler EXCEPT !.queue = LoopRest(@, raised)]
    /\ UNCHANGED <<devices, connections, events, besideSignals>>

(***************************************************************************)
(* Events and handler steps                                                *)
(***************************************************************************)
\* post_save of a Device: the row is written, then device_saved_handler runs
DeviceSaved(d, name, addr, status) ==
    /\ Idle
    /\ events < MaxEvents
    /\ devices[d].state # "deleted"
    /\ devices' = [devices EXCEPT ![d] =
                      [state |-> "present", addr |-> addr]]
    /\ LET inst == [id |-> d, name |-> name, primary_ip4 |-> addr, status |-> status]
       IN  Started("save", inst, devices[d].state = "absent",
                   device_saved_handler(inst, connections))
    /\ UNCHANGED <<connections, wugDevices, syncLogs, nextPk>>

\* one iteration of the loop of device_saved_handler
PushStep(inp) ==
    /\ handler.op = "save"
    /\ ~Idle
    /\ LET c == Head(handler.queue)
       IN  \E after \in {sync_device_to_wug(Db, devices, handler.inst, c,
                              SplitFirst(handler.inst.primary_ip4, "/"),
                              handler.created, inp)} :
             Stepped(Attempt(handler.inst.id, c, inp.add.kind, Db, after), after, FALSE)

\* post_delete of a Device
DeviceDeleted(d) ==
    /\ Idle
    /\ events < MaxEvents
    /\ devices[d].state = "present"
    /\ devices' = [devices EXCEPT ![d] = Deleted]
    /\ Started("delete",
               [id |-> d, name |-> "", primary_ip4 |-> devices[d].addr,
                status |-> "offline"],
               FALSE, device_deleted_handler(wugDevices, d))
    /\ UNCHANGED <<connections, wugDevices, syncLogs, nextPk>>

\* one iteration of the loop of device_deleted_handler
RemoveStep(http) ==
    /\ handler.op = "delete"
    /\ ~Idle
    /\ LET row == RowOf(wugDevices, Head(handler.queue))
       IN  \E after \in {remove_device_from_wug(Db, row, http)} :
             Stepped(Attempt(row.netbox_device_id, row.connection, http.kind, Db, after),
                     after, FALSE)

\* an operator edits a connection: is_active is switched
ConnectionEdited(c) ==
    /\ Idle
    /\ events < MaxEvents
    /\ connections' = [connections EXCEPT ![c] = ~@]
    /\ Started("edit", NoInst, FALSE, <<>>)
    /\ UNCHANGED <<devices, wugDevices, syncLogs, nextPk>>

(***************************************************************************)
(* One WUGAPIClient: requests, one HTTP exchange per step                  *)
(***************************************************************************)
\* WUGAPIClient.__init__
NewClient ==
    [ token |-> None, token_expires |-> NoExpiry, now |-> 0, microsecond |-> 0,
      pc |-> "idle",
      idx |-> 1, returnTo |-> "send", attempts |-> <<>>, last_error |-> FALSE,
      auths |-> 0, before401 |-> 0, statuses |-> <<>>, result |-> NoCall, raisedBy |-> "",
      requests |-> 0, ticks |-> 0, offered |-> <<>>, bearers |-> <<>>,
      entry |-> [token |-> None, token_expires |-> NoExpiry, now |-> 0,
                 microsecond |-> 0] ]

\* a caller enters _make_request(authenticated=True)
ClientRequest ==
    /\ client.pc = "idle"
    /\ client.requests < MaxRequests
    /\ client' = _ensure_authenticated(
                    [client EXCEPT !.requests = @ + 1, !.statuses = <<>>,
                                   !.auths = 0, !.before401 = 0,
                                   !.attempts = <<>>,
                                   !.offered = <<>>, !.bearers = <<>>,
                                   !.entry = [token |-> client.token,
                                              token_expires |-> client.token_expires,
                                              now |-> client.now,
                                              microsecond |-> client.microsecond],
                                   !.last_error = FALSE,
                                   !.result = NoCall, !.raisedBy = ""],
                    "send")
    /\ UNCHANGED besideClient

\* _authenticate tries its next candidate
ClientAuthenticate(resp) ==
    /\ client.pc = "auth"
    /\ client' = _authenticate(client, resp)
    /\ UNCHANGED besideClient

ClientSend(resp) ==
    /\ client.pc = "send"
    /\ client' = FirstExchange(client, resp)
    /\ UNCHANGED besideClient

ClientRetry(resp) ==
    /\ client.pc = "retry"
    /\ client' = RetryExchange(client, resp)
    /\ UNCHANGED besideClient

\* time passes between two requests: dt whole seconds, and the clock then
\* reads us microseconds into its second
ClientTick(dt, us) ==
    /\ client.pc = "idle"
    /\ client.ticks < MaxTicks
    /\ client' = [client EXCEPT !.now = @ + dt, !.microsecond = us,
                                !.ticks = @ + 1]
    /\ UNCHANGED besideClient

NextClient ==
    \/ ClientRequest
    \/ \E resp \in AuthResponses : ClientAuthenticate(resp)
    \/ \E resp \in TargetResponses : ClientSend(resp)
    \/ \E resp \in TargetResponses : ClientRetry(resp)
    \/ \E dt \in {60, 3600}, us \in {0, 500000} : ClientTick(dt, us)

\* the outcomes of one exchange with the endpoint of the request: every class
\* of status, a timeout, a refused connection
RequestResponses ==
    TargetResponses \cup { Response(204, NotJson), Response(304, NotJson),
                           Response(404, NotJson), ConnectionFailed }
\* the authentication endpoints grant a token or fail
RequestAuthResponses ==
    { Response(200, PyDict([token |-> "t1"])), Response(500, NotJson) }

\* requests whose endpoint answers with any of RequestResponses
NextRequest ==
    \/ ClientRequest
    \/ \E resp \in RequestAuthResponses : ClientAuthenticate(resp)
    \/ \E resp \in RequestResponses : ClientSend(resp)
    \/ \E resp \in RequestResponses : ClientRetry(resp)

\* the lifetimes a token response may state, in seconds, around the 60
\* seconds _authenticate takes off
Lifetimes == {30, 60, 61, 3600}
ExpiryAuthResponses ==
    { Response(200, PyDict([token |-> "t1"])), Response(500, NotJson) }
    \cup { Response(200, PyDict([access_token |-> "t2", expires_in |-> e])) :
                e \in Lifetimes }
ExpiryResponses ==
    { Response(200, PyDict([id |-> "w1"])), Response(401, NotJson) }

\* requests of a client whose tokens have any of Lifetimes
NextExpiry ==
    \/ ClientRequest
    \/ \E resp \in ExpiryAuthResponses : ClientAuthenticate(resp)
    \/ \E resp \in ExpiryResponses : ClientSend(resp)
    \/ \E resp \in ExpiryResponses : ClientRetry(resp)
    \/ \E dt \in {60}, us \in {0, 500000} : ClientTick(dt, us)

(***************************************************************************)
(* The public methods of WUGAPIClient, called one after the other          *)
(***************************************************************************)
\* what _make_request may give a public method
RequestResults ==
    {AddById, ScanStarted, ScanNoId, ListBare, ListWrapped} \cup ClientErrors

CanCall == Len(returned) < MaxCalls

Called(method, result) ==
    /\ returned' = Append(returned, [method |-> method, result |-> result])
    /\ UNCHANGED <<signalVars, client, push, manual>>

CallAddDeviceByIp(http) ==
    /\ CanCall
    /\ Called("add_device_by_ip", add_device_by_ip(IP5, http))

CallScanIpAddress(http) ==
    /\ CanCall
    /\ Called("scan_ip_address", scan_ip_address(IP5, http))

CallGetDevices(http) ==
    /\ CanCall
    /\ Called("get_devices", get_devices(http))

CallDeleteDevice(http) ==
    /\ CanCall
    /\ Called("delete_device", delete_device("w1", http))

CallTestConnection(probe, http) ==
    /\ CanCall
    /\ Called("test_connection", test_connection(probe, http))

NextCalls ==
    \/ \E http \in RequestResults : CallAddDeviceByIp(http)
    \/ \E http \in RequestResults : CallScanIpAddress(http)
    \/ \E http \in RequestResults : CallGetDevices(http)
    \/ \E http \in RequestResults : CallDeleteDevice(http)
    \/ \E probe \in {"ok", "raise"}, http \in RequestResults :
            CallTestConnection(probe, http)

(***************************************************************************)
(* The listings of WUGAPIClient: returned keeps, with every result, what   *)
(* _make_request gave the listing and the detail lookups                   *)
(***************************************************************************)
DevA == [id |-> "w1", name |-> "a"]
DevB == [deviceId |-> "w2", name |-> "b"]
DevNoId == [name |-> "c"]
DeviceListings ==
    { Json(PyList(<<DevA, DevB>>)), Json(PyDict([devices |-> <<DevB, DevA>>])),
      Json(PyList(<<DevNoId, DevA>>)), Raise("WUGAPIException") }
DetailResults ==
    { Json(PyDict([vendor |-> "v"])), Json(PyList(<<>>)) } \cup ClientErrors

Groups == << [id |-> 1, name |-> "g1"], [id |-> 2, name |-> "g2"] >>
GroupListings ==
    { Json(PyDict([data |-> [groups |-> Groups]])), Json(PyDict([groups |-> Groups])),
      Json(PyList(Groups)), Raise("WUGAPIException") }

Listed(method, http, details, result) ==
    /\ returned' = Append(returned, [method |-> method, http |-> http,
                                     details |-> details, result |-> result])
    /\ UNCHANGED <<signalVars, client, push, manual>>

CallGetDevicesDetails(http, details) ==
    /\ CanCall
    /\ Listed("get_devices", http, details, get_devices_include_details(http, details))

CallGetDeviceGroups(http) ==
    /\ CanCall
    /\ Listed("get_device_groups", http, <<>>, get_device_groups(http))

NextListing ==
    \/ \E http \in DeviceListings, details \in [1..2 -> DetailResults] :
            CallGetDevicesDetails(http, details)
    \/ \E http \in GroupListings : CallGetDeviceGroups(http)

(***************************************************************************)
(* One connection on its own: pushes of device 1, saves of the other       *)
(* devices, and every response the monitoring system can give              *)
(***************************************************************************)
AddRefused == Json(PyDict([success |-> FALSE, message |-> "refused"]))
ListBareMatch == Json(PyList(<<[id |-> "w9", ipAddress |-> IP5]>>))

PushScripts ==
    Scripts \cup { Script(Raise("WUGAuthenticationError"), NoCall, NoCall),
                    Script(AddRefused, ScanNoId, NoCall),
                    Script(AddRefused, ScanStarted, ListBare),
                    Script(AddById, ScanStarted, ListBareMatch) }

NoPush ==
    [ wug |-> {}, logs |-> <<>>, pk |-> 1,
      devs |-> [d \in Devices |-> Absent], count |-> 0,
      devsAtPush |-> [d \in Devices |-> Absent],
      inst |-> NoInst, created |-> FALSE, inp |-> Script(NoCall, NoCall, NoCall),
      before |-> {}, logsFrom |-> 0, calls |-> <<>>, escaped |-> None,
      op |-> "", opened |-> 0, openedBefore |-> 0, open |-> {},
      sync_disabled |-> {}, disabledBefore |-> {}, action |-> None,
      conflicts |-> {} ]

\* the tables of the connection, as a handler receives them
PushDb ==
    [ wug |-> push.wug, logs |-> push.logs, pk |-> push.pk, calls |-> <<>>,
      escaped |-> None, opened |-> push.opened, open |-> push.open,
      action |-> None, conflicts |-> {} ]

\* device 1 is saved and passes the gate: sync_device_to_wug for connection 1
PushOnce(addr, created, inp) ==
    /\ push.count < MaxPushes
    /\ push.devs[1].state # "deleted"
    /\ created => push.devs[1].state = "absent"
    /\ LET inst == [id |-> 1, name |-> "sw", primary_ip4 |-> addr,
                     status |-> STATUS_ACTIVE]
           devs == [push.devs EXCEPT ![1] = [state |-> "present", addr |-> addr]]
           db == PushDb
       IN  \E after \in {sync_device_to_wug(db, devs, inst, 1,
                                SplitFirst(addr, "/"), created, inp)} :
             push' = [push EXCEPT
                        !.wug = after.wug, !.logs = after.logs, !.pk = after.pk,
                        !.devs = devs, !.devsAtPush = devs, !.count = @ + 1,
                        !.inst = inst, !.created = created, !.inp = inp,
                        !.before = PairRows(push.wug, 1, 1),
                        !.logsFrom = Len(push.logs),
                        !.calls = after.calls, !.escaped = after.escaped,
                        !.op = "push", !.openedBefore = push.opened,
                        !.action = after.action, !.conflicts = after.conflicts,
                        !.disabledBefore = push.sync_disabled,
                        !.opened = after.opened, !.open = after.open]
    /\ UNCHANGED <<signalVars, client, returned, manual>>

\* device 1 is deleted: remove_device_from_wug for its WUGDevice
RemoveOnce(http) ==
    /\ push.count < MaxPushes
    /\ push.devs[1].state = "present"
    /\ PairRows(push.wug, 1, 1) # {}
    /\ LET row == RowOf(push.wug, ExistingWugDevice(push.wug, 1, 1))
       IN  \E after \in {remove_device_from_wug(PushDb, row, http)} :
             push' = [push EXCEPT
                        !.wug = after.wug, !.logs = after.logs, !.pk = after.pk,
                        !.devs[1] = Deleted, !.count = @ + 1,
                        !.before = PairRows(push.wug, 1, 1),
                        !.logsFrom = Len(push.logs),
                        !.calls = after.calls, !.escaped = after.escaped,
                        !.op = "remove", !.openedBefore = push.opened,
                        !.action = after.action, !.conflicts = after.conflicts,
                        !.disabledBefore = push.sync_disabled,
                        !.opened = after.opened, !.open = after.open]
    /\ UNCHANGED <<signalVars, client, returned, manual>>

\* another device is saved with an address, without being pushed
OtherDeviceSaved(d, addr) ==
    /\ d # 1
    /\ push.devs[d].state = "absent"
    /\ push' = [push EXCEPT !.devs[d] = [state |-> "present", addr |-> addr]]
    /\ UNCHANGED <<signalVars, client, returned, manual>>

\* push.sync_disabled holds the keys of the WUGDevice rows whose
\* sync_enabled is False
device_disable_sync_view(pk) ==
    /\ \E r \in push.wug : r.pk = pk
    /\ pk \notin push.sync_disabled
    /\ push' = [push EXCEPT !.sync_disabled = @ \cup {pk}]
    /\ UNCHANGED <<signalVars, client, returned, manual>>

device_enable_sync_view(pk) ==
    /\ \E r \in push.wug : r.pk = pk
    /\ pk \in push.sync_disabled
    /\ push' = [push EXCEPT !.sync_disabled = @ \ {pk}]
    /\ UNCHANGED <<signalVars, client, returned, manual>>

NextPush ==
    \/ \E addr \in Addresses, created \in BOOLEAN, inp \in PushScripts :
            PushOnce(addr, created, inp)
    \/ \E http \in DeleteResponses : RemoveOnce(http)
    \/ \E pk \in 1..MaxPushes : device_disable_sync_view(pk)
    \/ \E pk \in 1..MaxPushes : device_enable_sync_view(pk)
    \/ \E d \in Devices, addr \in Addresses : OtherDeviceSaved(d, addr)

(***************************************************************************)
(* trigger_sync_view: the manual sync of one connection.  A request runs   *)
(* to its end before the next one is taken.  Every WUGSyncLog row keeps    *)
(* the request (pass) that wrote it.                                       *)
(***************************************************************************)
ServerInfo == Json(PyDict([version |-> "2024"]))
TestResponses == {ServerInfo} \cup ClientErrors

NoManual ==
    [ logs |-> <<>>, pc |-> "idle", requests |-> 0, connection |-> 0,
      sync_log |-> 0, calls |-> <<>>, test_result |-> None, response |-> None ]

\* sync_log.status, .summary and .end_time are set and the row is saved
SaveSyncLog(logs, sync_log, status, summary) ==
    [logs EXCEPT ![sync_log] = [@ EXCEPT !.status = status, !.summary = summary,
                                         !.end_time = "now"]]

\* sync_wug_connection: the full pass, which reports its counts in a
\* WUGSyncLog entry of its own and returns a result, or raises
sync_wug_connection(logs, conn, pass, outcome) ==
    IF outcome = "raise" THEN [logs |-> logs, result |-> Raise("Exception")]
    ELSE [ logs |-> Append(logs, [ connection |-> conn, sync_type |-> "manual",
                                   status |-> IF outcome = "success"
                                              THEN "completed" ELSE "failed",
                                   summary |-> "pass", end_time |-> "now",
                                   pass |-> pass ]),
           result |-> Return(PyDict([success |-> outcome = "success",
                                     message |-> "pass"])) ]

\* the request arrives; a POST creates the running log
trigger_sync_view(pk, method) ==
    /\ manual.pc = "idle"
    /\ manual.requests < MaxPasses
    /\ IF method = "GET"
       THEN manual' = [manual EXCEPT !.requests = @ + 1, !.connection = pk,
                                     !.sync_log = 0, !.calls = <<>>,
                                     !.test_result = None,
                                     !.response = "accessible"]
       ELSE manual' = [manual EXCEPT
                         !.requests = @ + 1, !.connection = pk,
                         !.logs = Append(@, [ connection |-> pk,
                                              sync_type |-> "manual",
                                              status |-> "running",
                                              summary |-> "Starting debug sync...",
                                              end_time |-> None,
                                              pass |-> manual.requests + 1 ]),
                         !.sync_log = Len(manual.logs) + 1, !.calls = <<>>,
                         !.test_result = None, !.response = None,
                         !.pc = "test"]
    /\ UNCHANGED <<signalVars, client, returned, push>>

\* a mutated failure branch: the log is left as it is
TestFailed_LogLeft(m, error_msg) ==
    [m EXCEPT !.response = "connection failed", !.pc = "idle"]

\* "if not test_result.get('success', False)": the log is closed as failed
\* and the view returns
TestFailed(m, error_msg) ==
    [m EXCEPT !.logs = SaveSyncLog(m.logs, m.sync_log, "failed", error_msg),
              !.response = "connection failed", !.pc = "idle"]

\* a mutated success branch: the view goes on after a failed test
AfterTest_GoOn(m, test_result) == [m EXCEPT !.pc = "sync"]

AfterTest(m, test_result) ==
    IF ~GetDefault(test_result, "success", FALSE)
    THEN TestFailed(m, GetDefault(test_result, "message", "Connection test failed"))
    ELSE [m EXCEPT !.pc = "sync"]

\* client.test_connection() inside the with block
ManualTest(probe, http) ==
    /\ manual.pc = "test"
    /\ LET test_result == test_connection(probe, http).value.d
           m == [manual EXCEPT !.calls = Append(@, "test_connection"),
                               !.test_result = test_result.success]
       IN  manual' = AfterTest(m, test_result)
    /\ UNCHANGED <<signalVars, client, returned, push>>

\* "except Exception as sync_error": the log is closed as error
SyncErrored(m) ==
    [m EXCEPT !.logs = SaveSyncLog(m.logs, m.sync_log, "error", "Sync error"),
              !.response = "sync error", !.pc = "idle"]

\* the import of sync_utils and the call of sync_wug_connection
ManualSync(outcome) ==
    /\ manual.pc = "sync"
    /\ IF outcome = "ImportError"
       THEN manual' = [manual EXCEPT !.response = "import error", !.pc = "idle"]
       ELSE LET done == sync_wug_connection(manual.logs, manual.connection,
                                            manual.requests, outcome)
                m == [manual EXCEPT !.calls = Append(@, "sync_wug_connection"),
                                    !.logs = done.logs]
            IN  manual' =
                  IF done.result.kind = "raise" THEN SyncErrored(m)
                  ELSE IF Get(done.result.value.d, "success") = TRUE
                       THEN [m EXCEPT !.response = "sync completed", !.pc = "idle"]
                       ELSE [m EXCEPT !.response = "sync failed", !.pc = "idle"]
    /\ UNCHANGED <<signalVars, client, returned, push>>

NextManual ==
    \/ \E pk \in Connections, method \in {"GET", "POST"} : trigger_sync_view(pk, method)
    \/ \E probe \in {"ok", "raise"}, http \in TestResponses : ManualTest(probe, http)
    \/ \E outcome \in {"success", "failure", "raise", "ImportError"} : ManualSync(outcome)

\* the tables are empty, no handler is running
InitTables ==
    /\ devices = [d \in Devices |-> Absent]
    /\ connections = [c \in Connections |-> TRUE]
    /\ wugDevices = {}
    /\ syncLogs = <<>>
    /\ nextPk = 1
    /\ events = 0
    /\ handler = [op |-> "init", queue |-> <<>>, inst |-> NoInst, created |-> FALSE]
    /\ last = [ op |-> "init", inst |-> NoInst, created |-> FALSE, attempts |-> <<>>,
                wugBefore |-> {}, logsBefore |-> 0,
                rowsBefore |-> {}, rowsAfter |-> {}, calls |-> <<>> ]

\* the signal handlers: every push and remove builds its own client, so no
\* client and no view is there between two events; the public methods of
\* the client are functions of what _make_request gives them and start from
\* the same state
Init ==
    /\ InitTables
    /\ client = None
    /\ returned = <<>>
    /\ push = None
    /\ manual = None

\* one client, constructed
InitClient ==
    /\ InitTables
    /\ client = NewClient
    /\ returned = <<>>
    /\ push = None
    /\ manual = None

\* one connection and its tables, before the first push
InitPush ==
    /\ InitTables
    /\ client = None
    /\ returned = <<>>
    /\ push = NoPush
    /\ manual = None

\* the sync view, before its first request
InitManual ==
    /\ InitTables
    /\ client = None
    /\ returned = <<>>
    /\ push = None
    /\ manual = NoManual

Next ==
    \/ \E d \in Devices, name \in Names, addr \in Addresses \cup {NoIP},
          status \in Statuses : DeviceSaved(d, name, addr, status)
    \/ \E inp \in Scripts : PushStep(inp)
    \/ \E d \in Devices : DeviceDeleted(d)
    \/ \E http \in DeleteResponses : RemoveStep(http)
    \/ \E c \in Connections : ConnectionEdited(c)

Spec == Init /\ [][Next]_vars

SpecClient == InitClient /\ [][NextClient]_vars

SpecRequest == InitClient /\ [][NextRequest]_vars

SpecExpiry == InitClient /\ [][NextExpiry]_vars

SpecListing == Init /\ [][NextListing]_vars

SpecCalls == Init /\ [][NextCalls]_vars

SpecPush == InitPush /\ [][NextPush]_vars

SpecManual == InitManual /\ [][NextManual]_vars

(***************************************************************************)
(* Two save events of device 1 handled at once for connection 1.  Each     *)
(* handler is a thread of its own; the lookup of sync_device_to_wug is one  *)
(* step and the rest of the function another, so that the lookups and the  *)
(* writes of the two handlers interleave.  No lock, transaction or         *)
(* get_or_create joins the lookup to the create.  push holds the tables    *)
(* and, per thread, the handler's position and the row object its lookup   *)
(* returned, and the number of events it has taken.                        *)
(***************************************************************************)
Threads == 1..2
\* found holds the row object of the lookup, and nothing when it gave None
IdleThread == [pc |-> "idle", found |-> {}, inst |-> NoInst, created |-> FALSE]

NoRace ==
    [ wug |-> {}, logs |-> <<>>, pk |-> 1, opened |-> 0, open |-> {},
      count |-> [t \in Threads |-> 0],
      threads |-> [t \in Threads |-> IdleThread],
      overlapped |-> FALSE, finished |-> 0 ]

InitRace ==
    /\ InitTables
    /\ client = None
    /\ returned = <<>>
    /\ push = NoRace
    /\ manual = None

\* existing_wug_device = WUGDevice.objects.filter(...).first(): the thread
\* keeps the row object as it was read
RaceLookup(t, addr, created) ==
    /\ push.count[t] < MaxPushes
    /\ push.threads[t].pc = "idle"
    /\ created => \A u \in Threads : push.count[u] = 0
    /\ LET pk == ExistingWugDevice(push.wug, 1, 1)
           found == {r \in push.wug : r.pk = pk}
           inst == [id |-> 1, name |-> "sw", primary_ip4 |-> addr,
                    status |-> STATUS_ACTIVE]
       IN  push' = [push EXCEPT
                      !.count[t] = @ + 1,
                      !.threads[t] = [pc |-> "found", found |-> found,
                                      inst |-> inst, created |-> created],
                      !.overlapped = @ \/ \E u \in Threads \ {t} :
                                              push.threads[u].pc = "found"]
    /\ UNCHANGED <<signalVars, client, returned, manual>>

\* the tables as the thread's save() of its row object would write them:
\* save() writes every field of the object the lookup returned
RaceDb(found) ==
    [ wug |-> {r \in push.wug : r.pk \notin {f.pk : f \in found}} \cup found,
      logs |-> push.logs, pk |-> push.pk, calls |-> <<>>, escaped |-> None,
      opened |-> push.opened, open |-> push.open, action |-> None,
      conflicts |-> {} ]

\* the rest of sync_device_to_wug; on the exception path no row is saved
RaceFinish(t, inp) ==
    /\ push.threads[t].pc = "found"
    /\ LET th == push.threads[t]
           existing == IF th.found = {} THEN NoPk
                       ELSE (CHOOSE f \in th.found : TRUE).pk
           after == PushAfterLookup(RaceDb(th.found), [d \in Devices |-> Absent],
                        th.inst, 1, SplitFirst(th.inst.primary_ip4, "/"),
                        th.created, inp, existing)
           wug == IF add_device_by_ip(SplitFirst(th.inst.primary_ip4, "/"),
                                      inp.add).kind = "raise"
                  THEN push.wug ELSE after.wug
       IN  push' = [push EXCEPT
                      !.wug = wug, !.logs = after.logs, !.pk = after.pk,
                      !.opened = after.opened, !.open = after.open,
                      !.threads[t] = IdleThread, !.finished = @ + 1]
    /\ UNCHANGED <<signalVars, client, returned, manual>>

NextRace ==
    \/ \E t \in Threads, addr \in Addresses, created \in BOOLEAN :
            RaceLookup(t, addr, created)
    \/ \E t \in Threads, inp \in PushScripts : RaceFinish(t, inp)

SpecRace == InitRace /\ [][NextRace]_vars

(***************************************************************************)
(* Properties of the event trigger layer (Spec)                            *)
(***************************************************************************)
HasAttempt == Len(last.attempts) > 0
LastAttempt == last.attempts[Len(last.attempts)]
PushAttempted == last.op = "save" /\ HasAttempt
RemoveAttempted == last.op = "delete" /\ HasAttempt

\* the SyncLog rows an attempt wrote
LogsOf(a) == SubSeq(syncLogs, a.logsFrom + 1, a.logsTo)
LogCount(a) == a.logsTo - a.logsFrom
OfType(logs, sync_type) == {i \in 1..Len(logs) : logs[i].sync_type = sync_type}

\* the latest attempt pushed a device that had no WUGDevice on the connection
NewlyEligible == PushAttempted /\ last.rowsBefore = {}
OneSuccessRow ==
    /\ Cardinality(last.rowsAfter) = 1
    /\ \A r \in last.rowsAfter : r.sync_status = "success"

C3_DeletedIffRemoteSuccess ==
    RemoveAttempted
        => /\ (last.rowsAfter = {}) <=> (LastAttempt.remote = "json")
           /\ (LastAttempt.remote = "raise") => (last.rowsAfter = last.rowsBefore)

\* the remote delete was answered with success and the WUGDevice is still there
C3_Witness ==
    /\ RemoveAttempted
    /\ LastAttempt.remote = "json"
    /\ last.calls = <<"delete_device">>
    /\ last.rowsAfter # {}
    /\ last.rowsAfter = last.rowsBefore

\* C9: every remove attempt writes exactly one WUGSyncLog.
C9_RemoveWritesOneLog ==
    RemoveAttempted => LogCount(LastAttempt) = 1

\* a remove whose remote delete was answered with success wrote no WUGSyncLog
C9_Witness ==
    /\ RemoveAttempted
    /\ LastAttempt.remote = "json"
    /\ LogCount(LastAttempt) = 0

\* C10: at most one WUGDevice per (connection, source device) pair.
C10_OneDevicePerPair ==
    Cardinality({<<r.connection, r.netbox_device_id>> : r \in wugDevices})
        = Cardinality(wugDevices)

\* a pair that already had a WUGDevice was pushed again, successfully
C10_Witness ==
    /\ PushAttempted
    /\ last.rowsBefore # {}
    /\ LastAttempt.remote = "json"
    /\ Cardinality(last.rowsAfter) = 1

\* the connections with is_active = true
ActiveConnections == {c \in Connections : connections[c]}
AttemptedConnections == [i \in 1..Len(last.attempts) |-> last.attempts[i].connection]
SaveHandled == last.op = "save" /\ Idle
\* the saved device has a primary IPv4 address, is active, and some
\* connection is active
Eligible ==
    /\ last.inst.primary_ip4 # NoIP
    /\ last.inst.status = "active"
    /\ ActiveConnections # {}
DeleteHandled == last.op = "delete" /\ Idle

\* a WUGDevice row without its key, a WUGSyncLog sequence from a fresh table
Keyless(rows) == {[r EXCEPT !.pk = NoPk] : r \in rows}
PushedAlone(inp) ==
    sync_device_to_wug([wug |-> last.rowsBefore, logs |-> <<>>, pk |-> nextPk,
                        calls |-> <<>>, escaped |-> None, opened |-> 0,
                        open |-> {}, action |-> None, conflicts |-> {}],
                       devices, last.inst, LastAttempt.connection,
                       SplitFirst(last.inst.primary_ip4, "/"), last.created, inp)
\* a push of this save to another connection, before the latest, failed
EarlierPushFailed ==
    \E i \in 1..(Len(last.attempts) - 1) : last.attempts[i].remote = "raise"

\* the scripts of a push that succeeds remotely
SucceedingScripts == {s \in Scripts : s.add.kind = "json"}

\* C6: a save that passes the gate attempts a push for every active
\* connection, in order, whether or not an earlier push failed; and what a
\* push that succeeds after another connection's push failed leaves (the
\* WUGDevice of its pair, the WUGSyncLog rows it wrote) is what that push
\* leaves when run with no other connection's push.
C6_FailureIsIsolated ==
    /\ (SaveHandled /\ Eligible)
          => AttemptedConnections = SetToSeq(ActiveConnections)
    /\ (PushAttempted /\ LastAttempt.remote = "json" /\ EarlierPushFailed)
          => \E inp \in SucceedingScripts :
                LET alone == PushedAlone(inp)
                IN  /\ alone.logs = LogsOf(LastAttempt)
                    /\ Keyless(PairRows(alone.wug, LastAttempt.connection,
                                         last.inst.id)) = Keyless(last.rowsAfter)

\* a handled save whose first push raised and whose second push succeeded
C6_Witness ==
    /\ SaveHandled
    /\ Len(last.attempts) = 2
    /\ last.attempts[1].remote = "raise"
    /\ last.attempts[2].remote = "json"
    /\ OneSuccessRow

\* C7: a save is a no-op (no client call, no WUGDevice or WUGSyncLog created
\* or changed) unless the device has a primary IPv4 address, is active and
\* an active connection exists; then only active connections are pushed to.
C7_GateOrNoOp ==
    last.op = "save"
        => /\ ~Eligible
                => /\ Idle
                   /\ last.attempts = <<>>
                   /\ last.calls = <<>>
                   /\ wugDevices = last.wugBefore
                   /\ Len(syncLogs) = last.logsBefore
           /\ \A i \in 1..Len(last.attempts) :
                AttemptedConnections[i] \in ActiveConnections

\* a device with an address and synced rows was saved while not active
C7_Witness ==
    /\ SaveHandled
    /\ last.inst.primary_ip4 # NoIP
    /\ last.inst.status # STATUS_ACTIVE
    /\ ActiveConnections # {}
    /\ PairRows(wugDevices, 1, last.inst.id) # {}
    /\ last.attempts = <<>>

\* the WUGDevice rows of the deleted device when the handler started
RowsOfDeleted == {r \in last.wugBefore : r.netbox_device_id = last.inst.id}

\* C8: a delete invokes remove once for every WUGDevice of the deleted
\* device, across all connections, whether or not an earlier remove failed;
\* with no such WUGDevice no client call is made.
C8_RemoveForEveryRow ==
    /\ DeleteHandled
          => /\ Len(last.attempts) = Cardinality(RowsOfDeleted)
             /\ {a.connection : a \in {last.attempts[i] : i \in 1..Len(last.attempts)}}
                    = {r.connection : r \in RowsOfDeleted}
             /\ RowsOfDeleted = {} => last.calls = <<>>
    /\ RemoveAttempted
          => /\ LastAttempt.device = last.inst.id
             /\ last.calls = <<"delete_device">>

\* a handled delete of a device synced to two connections; the first remove raised
C8_Witness ==
    /\ DeleteHandled
    /\ Cardinality(RowsOfDeleted) = 2
    /\ Len(last.attempts) = 2
    /\ last.attempts[1].remote = "raise"

(***************************************************************************)
(* Properties of the client (SpecClient)                                   *)
(***************************************************************************)
RequestOver == client.pc = "idle" /\ client.requests > 0
TargetCalls == Len(client.statuses)
Got401 == TargetCalls > 0 /\ Is401(client.statuses[1])
Got401Twice == TargetCalls > 1 /\ Is401(client.statuses[2])
ReAuthentications == client.auths - client.before401
AuthenticationError == Raise("WUGAuthenticationError")

\* C4, as stated: in an authenticated request a 401 clears the token and is
\* followed by exactly one re-authentication and exactly one retry; a 401
\* to the retry raises the authentication error; at most two calls are made.
C4_OneReauthOneRetry ==
    /\ TargetCalls <= 2
    /\ (RequestOver /\ Got401)
          => /\ ReAuthentications = 1
             /\ TargetCalls = 2
    /\ (RequestOver /\ Got401Twice) => client.result = AuthenticationError

\* C4, amended: a 401 clears the token and is followed by exactly one
\* re-authentication; the request is retried exactly once when the
\* re-authentication obtains a token, and not at all when it fails, in which
\* case the authentication error of _authenticate reaches the caller; a 401
\* to the retry raises the authentication error; at most two calls are made.
C4_OneReauthThenRetryIfToken ==
    /\ TargetCalls <= 2
    /\ Got401 => ReAuthentications = 1
    /\ (Got401 /\ client.pc = "auth" /\ client.attempts = <<>>)
          => client.token = None
    /\ (RequestOver /\ Got401)
          => \/ TargetCalls = 2 /\ client.raisedBy = "_make_request"
                              /\ Truthy(client.token)
             \/ /\ TargetCalls = 1
                /\ client.raisedBy = "_authenticate"
                /\ client.result = AuthenticationError
                /\ ~Truthy(client.token)
    /\ (RequestOver /\ Got401Twice)
          => /\ client.result = AuthenticationError
             /\ client.raisedBy = "_make_request"

\* a request whose first call and whose retry were both answered 401
C4_Witness ==
    /\ RequestOver
    /\ Got401Twice
    /\ ReAuthentications = 1
    /\ client.result = AuthenticationError

\* C5: when every candidate fails, _authenticate has tried each of them
\* once, in the order of the list, before it raises the authentication
\* error; it never raises before the last candidate has been tried.
C5_EveryCandidateTriedInOrder ==
    /\ client.pc = "auth"
          => client.attempts = SubSeq(auth_attempts, 1, client.idx - 1)
    /\ client.raisedBy = "_authenticate"
          => /\ client.attempts = auth_attempts
             /\ client.result = AuthenticationError

\* _authenticate raised after its six candidates
C5_Witness ==
    /\ client.raisedBy = "_authenticate"
    /\ Len(client.attempts) = 6
    /\ client.result = AuthenticationError

(***************************************************************************)
(* Properties of the public client methods (SpecCalls)                     *)
(***************************************************************************)
HasSuccessFlag(result) ==
    /\ result.kind = "return"
    /\ result.value.type = "dict"
    /\ "success" \in DOMAIN result.value.d
    /\ result.value.d.success \in BOOLEAN

\* C11: every public method of the client either returns a result object
\* carrying a success boolean or raises one of the client's two errors.
C11_SuccessFlagOrClientError ==
    \A i \in 1..Len(returned) :
        \/ HasSuccessFlag(returned[i].result)
        \/ returned[i].result \in ClientErrors

\* delete_device and get_devices returned, and neither value has a success flag
C11_Witness ==
    /\ Len(returned) = 2
    /\ returned[1].method = "delete_device"
    /\ returned[1].result = Return(PyBool(TRUE))
    /\ returned[2].method = "get_devices"
    /\ returned[2].result.kind = "return"
    /\ returned[2].result.value.type = "list"

(***************************************************************************)
(* Properties of one push (SpecPush)                                       *)
(***************************************************************************)
Pushed == push.count > 0 /\ push.op = "push"
PushLogs == SubSeq(push.logs, push.logsFrom + 1, Len(push.logs))
PushRows == PairRows(push.wug, 1, 1)
RemoteRefused ==
    /\ Pushed
    /\ push.inp.add.kind = "json"
    /\ push.inp.add.body.type = "dict"
    /\ GetDefault(push.inp.add.body.d, "success", TRUE) = FALSE

\* C12: when the remote add-by-IP answers success = false with a message, an
\* existing WUGDevice is marked failed with that message and kept, none is
\* created if none existed, and one WUGSyncLog with status failed and
\* devices_errors = 1 is written.
C12_RefusedAddMarksFailed ==
    RemoteRefused
        => /\ Cardinality(PushRows) = Cardinality(push.before)
           /\ \A r \in PushRows :
                /\ r.sync_status = "failed"
                /\ r.error_message = push.inp.add.body.d.message
           /\ Len(PushLogs) = 1
           /\ PushLogs[1].status = "failed"
           /\ PushLogs[1].devices_errors = 1

\* the remote refused the add of a device with no WUGDevice, and the device
\* now has one with status success and a completed log
C12_Witness ==
    /\ RemoteRefused
    /\ push.before = {}
    /\ \E r \in PushRows : r.sync_status = "success"
    /\ PushLogs[Len(PushLogs)].status = "completed"

AddRaised == Pushed /\ push.inp.add.kind = "raise"

\* C13: when the client raises during the add call of a push, one WUGSyncLog
\* with status error and devices_errors = 1 is written, and no exception
\* leaves sync_device_to_wug for the signal handler.
C13_ClientExceptionLoggedNotRaised ==
    AddRaised
        => /\ Len(PushLogs) = 1
           /\ PushLogs[1].status = "error"
           /\ PushLogs[1].devices_errors = 1
           /\ push.escaped = None

\* the add call of a push raised an authentication error and the error log
\* is there
C13_Witness ==
    /\ AddRaised
    /\ push.inp.add.exc = "WUGAuthenticationError"
    /\ push.calls = <<"add_device_by_ip">>
    /\ PushLogs[1].status = "error"
    /\ push.escaped = None

PushSucceeded == Pushed /\ push.inp.add.kind = "json"
NetboxToWugLogs == SelectSeq(PushLogs, LAMBDA l : l.sync_type = "netbox_to_wug")

\* C14: the WUGSyncLog of a successful push has status completed,
\* devices_discovered = 1, devices_errors = 0 and exactly one of
\* devices_created / devices_updated equal to 1; it is devices_updated
\* exactly when the device was not new and already had a WUGDevice.
C14_CompletedLogMatchesAction ==
    PushSucceeded
        => /\ Len(NetboxToWugLogs) = 1
           /\ LET log == NetboxToWugLogs[1]
                  updating == ~push.created /\ push.before # {}
              IN  /\ log.status = "completed"
                  /\ log.devices_discovered = 1
                  /\ log.devices_errors = 0
                  /\ log.devices_created = (IF updating THEN 0 ELSE 1)
                  /\ log.devices_updated = (IF updating THEN 1 ELSE 0)

\* a device that already had a WUGDevice was saved again and pushed: the
\* log counts one update and no create
C14_Witness ==
    /\ PushSucceeded
    /\ ~push.created
    /\ push.before # {}
    /\ NetboxToWugLogs[1].devices_updated = 1
    /\ NetboxToWugLogs[1].devices_created = 0

DetectorRan ==
    /\ Pushed
    /\ Len(push.calls) = 3
    /\ push.calls[3] = "get_devices"
PushedIp == SplitFirst(push.inst.primary_ip4, "/")
\* the other devices of the inventory whose primary address was the pushed
\* one when the device was pushed
SourceMatches ==
    {d \in Devices \ {1} :
        /\ push.devsAtPush[d].state = "present"
        /\ SplitFirst(push.devsAtPush[d].addr, "/") = PushedIp}
\* the devices the monitoring system lists at the pushed address under an
\* id other than the one it gave to the pushed device
MonitorListed ==
    IF push.inp.list.kind # "json" THEN <<>>
    ELSE IF push.inp.list.body.type = "dict"
         THEN GetDefault(push.inp.list.body.d, "devices", <<>>)
         ELSE push.inp.list.body.l
MonitorMatches ==
    {i \in 1..Len(MonitorListed) :
        /\ MonitorListed[i].ipAddress = PushedIp
        /\ MonitorListed[i].id # PyOr(Get(push.inp.add.body.d, "device_id"),
                                      Get(push.inp.add.body.d, "id"))}
Matches == Cardinality(SourceMatches) + Cardinality(MonitorMatches)
ConflictLogs == SelectSeq(PushLogs, LAMBDA l : l.sync_type = "ip_conflict_check")

\* C15: the conflict check writes a WUGSyncLog of type ip_conflict_check if
\* and only if some other device holds the address on either side; then
\* there is exactly one, with status warning and devices_discovered equal to
\* the number of matches plus one, and without a collision there is none.
C15_ConflictLogIffMatch ==
    DetectorRan
        => IF Matches > 0
           THEN /\ Len(ConflictLogs) = 1
                /\ ConflictLogs[1].status = "warning"
                /\ ConflictLogs[1].devices_discovered = Matches + 1
           ELSE ConflictLogs = <<>>

\* the monitoring system lists another device at the pushed address, no
\* inventory device shares it, and the check wrote no conflict log
C15_Witness ==
    /\ DetectorRan
    /\ MonitorMatches # {}
    /\ SourceMatches = {}
    /\ \A d \in Devices \ {1} : push.devsAtPush[d].state = "absent"
    /\ ConflictLogs = <<>>

\* no device holds the pushed address on either side, and the check wrote a
\* conflict log all the same
C15_LogWithoutCollision ==
    /\ DetectorRan
    /\ Matches = 0
    /\ Len(ConflictLogs) = 1

\* C16: every push and every remove acquires a session of its own and has
\* closed it when it ends, whichever way it ends; no session stays open and
\* none is used by two of them.
C16_OwnSessionAlwaysClosed ==
    /\ push.open = {}
    /\ push.opened = push.count
    /\ push.count > 0 => push.opened = push.openedBefore + 1

\* a push that succeeded, then a remove that left its with block by an
\* exception and wrote nothing: two sessions were created and none is open
C16_Witness ==
    /\ push.op = "remove"
    /\ push.calls = <<"delete_device">>
    /\ push.before # {}
    /\ Len(push.logs) = push.logsFrom
    /\ push.opened = 2
    /\ push.open = {}

\* the WUGDevice of the pushed pair had sync_enabled = False when the device
\* was saved
PushedWhileDisabled ==
    /\ Pushed
    /\ \E r \in push.before : r.pk \in push.disabledBefore

\* C17: while the WUGDevice of a device has sync_enabled = False, a save of
\* the device makes no add call to that connection's monitoring system.
C17_DisabledDeviceNotPushed ==
    PushedWhileDisabled => "add_device_by_ip" \notin {push.calls[i] : i \in 1..Len(push.calls)}

\* sync was disabled for the WUGDevice, the device was saved, and the add
\* call was made and the row marked success all the same
C17_Witness ==
    /\ PushedWhileDisabled
    /\ push.calls[1] = "add_device_by_ip"
    /\ \E r \in PushRows : r.pk \in push.sync_disabled /\ r.sync_status = "success"

\* the device_id of the result object add_device_by_ip returns: the
\* device_id of the response, else its id
ResultDeviceId ==
    PyOr(Get(push.inp.add.body.d, "device_id"), Get(push.inp.add.body.d, "id"))

\* C20: after a successful push, the wug_device_id of the WUGDevice equals the
\* device_id of the result object returned by add_device_by_ip.
C20_StoredIdIsResultDeviceId ==
    PushSucceeded => \A r \in PushRows : r.wug_device_id = ResultDeviceId

\* the monitoring system answered the add with device_id w1, the push
\* succeeded, and the WUGDevice holds None as its wug_device_id
C20_Witness ==
    /\ PushSucceeded
    /\ ResultDeviceId = "w1"
    /\ \E r \in PushRows : r.wug_device_id = None /\ r.sync_status = "success"

(***************************************************************************)
(* Properties of the manual sync (SpecManual)                              *)
(***************************************************************************)
PassOver == manual.pc = "idle" /\ manual.sync_log # 0
PassLogs == SelectSeq(manual.logs, LAMBDA l : l.pass = manual.requests)
PassCalls == {manual.calls[i] : i \in 1..Len(manual.calls)}

\* C18: when the connection test at the start of a manual sync fails, the
\* pass is aborted, sync_wug_connection is not called, and exactly one
\* WUGSyncLog exists for the pass, with status failed.
C18_FailedTestAbortsPass ==
    (PassOver /\ manual.test_result = FALSE)
        => /\ "sync_wug_connection" \notin PassCalls
           /\ Len(PassLogs) = 1
           /\ PassLogs[1].status = "failed"

\* a second pass whose connection test failed on authentication: its one
\* log is failed and carries the message of the test
C18_Witness ==
    /\ PassOver
    /\ manual.requests = 2
    /\ manual.test_result = FALSE
    /\ manual.calls = <<"test_connection">>
    /\ PassLogs[1].summary = "Authentication failed"
    /\ PassLogs[1].status = "failed"

\* C19: every WUGSyncLog created with status running is finalized when the
\* manual sync ends: on every exit path its status is no longer running and
\* its end time is set.
C19_RunningLogFinalized ==
    manual.pc = "idle"
        => \A i \in 1..Len(manual.logs) :
              /\ manual.logs[i].status # "running"
              /\ manual.logs[i].end_time # None

\* the pass went through, the view answered that the sync completed, and
\* the log it created is still running without an end time
C19_Witness ==
    /\ PassOver
    /\ manual.response = "sync completed"
    /\ manual.logs[manual.sync_log].status = "running"
    /\ manual.logs[manual.sync_log].end_time = None

\* C21: the action of a push is "update" if and only if a WUGDevice exists
\* for the connection and the device and the caller did not pass
\* is_new_device; in every other case it is "create".
C21_UpdateIffExistingAndNotNew ==
    /\ Pushed
        => push.action = (IF push.before # {} /\ ~push.created
                          THEN "update" ELSE "create")
    /\ \A existing \in {NoPk} \cup 1..push.pk, is_new_device \in BOOLEAN :
          PushAction(existing, is_new_device)
            = (IF existing # NoPk /\ ~is_new_device THEN "update" ELSE "create")

\* a device that is not new and has no WUGDevice yet was pushed, first as
\* action create, and pushed again when it had one, as action update
C21_Witness ==
    /\ Pushed
    /\ push.count = 2
    /\ ~push.created
    /\ push.before # {}
    /\ push.action = "update"
    /\ \A r \in push.before : r.pk = 1
    /\ Len(push.logs) >= 2
    /\ push.logs[1].devices_created = 1

\* the monitoring system accepted the add: a response that does not carry
\* success = false
AddAccepted == PushSucceeded /\ ~RemoteRefused
\* the monitoring system started the scan: a response with a scan id
ScanReported ==
    /\ push.inp.scan.kind = "json"
    /\ PyOr(Get(push.inp.scan.body.d, "scan_id"), Get(push.inp.scan.body.d, "id")) # None
CallsMade == {push.calls[i] : i \in 1..Len(push.calls)}
CallsInOrder ==
    \E n \in 0..3 : push.calls = SubSeq(<<"add_device_by_ip", "scan_ip_address",
                                            "get_devices">>, 1, n)

\* C22: within one push the calls are add, then scan, then conflict check;
\* the scan is made if and only if the add succeeded and the action is
\* create, and the conflict check if and only if that scan reported success.
C22_AddThenScanThenCheck ==
    Pushed
        => /\ CallsInOrder
           /\ "scan_ip_address" \in CallsMade
                <=> (AddAccepted /\ push.action = "create")
           /\ "get_devices" \in CallsMade
                <=> ("scan_ip_address" \in CallsMade /\ ScanReported)

\* the monitoring system refused the add, and the scan and the conflict
\* check were made all the same
C22_Witness ==
    /\ Pushed
    /\ RemoteRefused
    /\ push.calls = <<"add_device_by_ip", "scan_ip_address", "get_devices">>

\* an accepted add of a new device, its scan and its conflict check, in
\* that order
C22_OrderedPush ==
    /\ Pushed
    /\ AddAccepted
    /\ push.calls = <<"add_device_by_ip", "scan_ip_address", "get_devices">>

\* apart from refused adds, the calls of a push follow the order and the
\* conditions stated above
C22_HoldsUnlessRefused == RemoteRefused \/ C22_AddThenScanThenCheck

ScanFailed ==
    /\ Pushed
    /\ AddAccepted
    /\ "scan_ip_address" \in CallsMade
    /\ ~ScanReported

\* C23: a scan failure after a successful add does not fail the push: the
\* WUGDevice has status success and the WUGSyncLog of the push has status
\* completed with devices_errors = 0.
C23_ScanFailureKeepsPush ==
    ScanFailed
        => /\ PushRows # {}
           /\ \A r \in PushRows : r.sync_status = "success"
           /\ Len(PushLogs) = 1
           /\ PushLogs[1].sync_type = "netbox_to_wug"
           /\ PushLogs[1].status = "completed"
           /\ PushLogs[1].devices_errors = 0

\* scan_ip_address raised after an accepted add, and the push is recorded
\* as completed
C23_Witness ==
    /\ ScanFailed
    /\ push.inp.scan.kind = "raise"
    /\ push.calls = <<"add_device_by_ip", "scan_ip_address">>
    /\ PushLogs[1].status = "completed"
    /\ \E r \in PushRows : r.sync_status = "success"

\* the inventory devices the conflict check reported
ReportedSource == {c.id : c \in {x \in push.conflicts : x.type = "netbox"}}

\* C24: the conflict check reports an inventory device if and only if it is
\* a device other than the one just added whose primary address is the
\* pushed one; a device at a different address is never reported.
C24_SourceConflictIffSameIp ==
    DetectorRan => ReportedSource = SourceMatches

\* the pushed device is at 10.5 and the only other device at 10.50, and
\* the conflict check reported that device
C24_Witness ==
    /\ DetectorRan
    /\ PushedIp = IP5
    /\ SourceMatches = {}
    /\ ReportedSource = {2}
    /\ SplitFirst(push.devsAtPush[2].addr, "/") = IP50

\* another device at the pushed address is reported, once, and the pushed
\* device is not
C24_SameIpReported ==
    /\ DetectorRan
    /\ SourceMatches = {2}
    /\ ReportedSource = {2}

\* the entries of the monitoring system's list the conflict check reported
ReportedMonitor == {c.id : c \in {x \in push.conflicts : x.type = "wug"}}

\* C25: the conflict check reports a device of the monitoring system if and
\* only if its address is the pushed one and its id differs from the id just
\* created for the pushed device.
C25_MonitorConflictIffSameIpOtherId ==
    DetectorRan => ReportedMonitor = MonitorMatches

\* the monitoring system lists another device at the pushed address under
\* another id, and the conflict check reported no device of the monitoring
\* system
C25_Witness ==
    /\ DetectorRan
    /\ push.inp.list = ListBareMatch
    /\ PushedIp = IP5
    /\ MonitorMatches = {1}
    /\ ReportedMonitor = {}

FetchFailed == DetectorRan /\ push.inp.list.kind = "raise"

\* C26: a failure of the fetch of the monitoring system's device list inside
\* the conflict check does not fail the caller: the inventory matches found
\* before it are reported in an ip_conflict_check WUGSyncLog, and the push
\* ends with a completed WUGSyncLog.
C26_FetchFailureKeepsSourceMatches ==
    FetchFailed
        => /\ SourceMatches \subseteq ReportedSource
           /\ ReportedSource # {}
                => /\ Len(ConflictLogs) = 1
                   /\ ConflictLogs[1].devices_discovered
                        = Cardinality(ReportedSource) + 1
           /\ Len(NetboxToWugLogs) = 1
           /\ NetboxToWugLogs[1].status = "completed"
           /\ PushLogs[Len(PushLogs)] = NetboxToWugLogs[1]

\* the fetch raised while another inventory device holds the pushed
\* address: the conflict log counts it and the push log is completed
C26_Witness ==
    /\ FetchFailed
    /\ SourceMatches = {2}
    /\ Len(ConflictLogs) = 1
    /\ ConflictLogs[1].devices_discovered = 2
    /\ NetboxToWugLogs[1].status = "completed"

(***************************************************************************)
(* Properties of _authenticate (SpecClient)                                *)
(***************************************************************************)
Tried == Len(client.attempts)
Searching == client.pc = "auth"
\* _authenticate returned with a token
Authenticated ==
    /\ Tried > 0
    /\ ~Searching
    /\ client.raisedBy # "_authenticate"

\* C27, as stated: _authenticate stops at the first candidate whose response
\* contains a token field: no later candidate is tried, the stored token is
\* that candidate's, and a response without a token field does not end the
\* search.
C27_StopsAtFirstTokenField ==
    /\ \A i \in 1..Tried :
          client.offered[i] # None => (i = Tried /\ ~Searching)
    /\ Authenticated
          => /\ client.offered[Tried] # None
             /\ client.offered[Tried] = client.token
    /\ (Tried > 0 /\ ~Searching /\ client.offered[Tried] = None)
          => client.raisedBy = "_authenticate"

\* C27, amended: _authenticate stops at the first candidate whose response
\* carries a non-empty token under token or access_token: no later candidate
\* is tried, the stored token is that candidate's, and a response with no
\* token field or an empty one does not end the search.
C27_StopsAtFirstToken ==
    /\ \A i \in 1..Tried :
          Truthy(client.offered[i]) => (i = Tried /\ ~Searching)
    /\ Authenticated
          => /\ Truthy(client.offered[Tried])
             /\ client.offered[Tried] = client.token
             /\ client.attempts = SubSeq(auth_attempts, 1, Tried)
    /\ (Tried > 0 /\ ~Searching /\ ~Truthy(client.offered[Tried]))
          => /\ client.raisedBy = "_authenticate"
             /\ client.attempts = auth_attempts

\* the first candidate answered with an empty token, the second without a
\* token field, the third with a token: the search ended there with it
C27_Witness ==
    /\ Authenticated
    /\ client.offered = <<"", None, "t2">>
    /\ client.token = "t2"
    /\ client.attempts = SubSeq(auth_attempts, 1, 3)

TokenPaths == {"/api/v1/token", "/api/token", "/auth/token", "/NmConsole/api/token"}
BasicPaths == {"/api/v1/token", "/api/token"}
\* the candidate was tried before the i-th attempt
TriedBefore(i, endpoint, auth_method) ==
    \E k \in 1..(i - 1) : client.attempts[k] = <<endpoint, auth_method>>

\* C28, as stated: a JSON-body POST is attempted on every candidate token
\* path before any Basic-auth POST is attempted.
C28_JsonOnEveryPathBeforeBasic ==
    \A i \in 1..Tried :
        client.attempts[i][2] = "basic"
            => \A endpoint \in TokenPaths : TriedBefore(i, endpoint, "json")

\* C28, amended: a JSON-body POST is attempted on /api/v1/token and on
\* /api/token before any Basic-auth POST; the Basic-auth POSTs go to these
\* two paths; the JSON-body POSTs to /auth/token and /NmConsole/api/token
\* are attempted after both Basic-auth POSTs.
C28_JsonOnSamePathsBeforeBasic ==
    \A i \in 1..Tried :
        /\ client.attempts[i][1] \in TokenPaths
        /\ client.attempts[i][2] = "basic"
            => /\ client.attempts[i][1] \in BasicPaths
               /\ \A endpoint \in BasicPaths : TriedBefore(i, endpoint, "json")
        /\ (client.attempts[i][2] = "json" /\ client.attempts[i][1] \notin BasicPaths)
            => \A endpoint \in BasicPaths : TriedBefore(i, endpoint, "basic")

\* all six candidates were tried: the last two are JSON-body POSTs and come
\* after the two Basic-auth POSTs
C28_Witness ==
    /\ Tried = 6
    /\ client.attempts[3] = <<"/api/v1/token", "basic">>
    /\ client.attempts[4] = <<"/api/token", "basic">>
    /\ client.attempts[5] = <<"/auth/token", "json">>
    /\ client.attempts[6] = <<"/NmConsole/api/token", "json">>

\* the client held a token that was not expired when the request began
EntryValid ==
    /\ Truthy(client.entry.token)
    /\ client.entry.token_expires # NoExpiry
    /\ client.entry.now < client.entry.token_expires
InRequest == client.requests > 0
Sent == Len(client.bearers)

\* C29: _authenticate runs at the start of an authenticated request if and
\* only if the client holds no token or its token is expired; with a token
\* that is present and not expired no authentication is made unless a 401
\* is received; every authenticated request sent carries a non-empty bearer
\* token.
C29_AuthenticateIffNoValidToken ==
    InRequest
        => /\ (EntryValid /\ ~Got401) => client.auths = 0
           /\ (~EntryValid /\ (Sent > 0 \/ Searching)) => client.auths >= 1
           /\ \A i \in 1..Sent : Truthy(client.bearers[i])

\* after a failed re-authentication the token is the empty string and its
\* expiry is still ahead: the next request is sent with an empty bearer
\* token and without authentication
C29_Witness ==
    /\ client.requests = 2
    /\ client.entry.token = ""
    /\ client.entry.now < client.entry.token_expires
    /\ client.auths = 0
    /\ Sent = 1
    /\ client.bearers[1] = ""

\* a request that began with a token that was present and not expired was
\* sent with it, without authentication
C29_TokenReused ==
    /\ RequestOver
    /\ EntryValid
    /\ client.auths = 0
    /\ client.bearers = <<client.entry.token>>


\* the responses that offer the token the last candidate returned
GrantedBy ==
    { r \in AuthResponses : TokenField(r) = client.offered[Len(client.offered)] }
\* expires_in of the response, 3600 when the response does not provide it
ExpiresIn(r) == GetDefault(r.body.d, "expires_in", 3600)

C30_ProvidedExpiresIn ==
    /\ Authenticated
    /\ client.offered[Len(client.offered)] = "t2"
    /\ client.token_expires = client.entry.now + 60


\* the exchange that ended the request, when one was made
LastExchange == client.statuses[Len(client.statuses)]
RaisedAPIError == client.result = Raise("WUGAPIException")
RaisedAuthenticationError == client.result = Raise("WUGAuthenticationError")
\* what a failed exchange must give the caller: APIError, or
\* AuthenticationError when the failure is a 401
SurfacedAsError ==
    \/ RaisedAPIError
    \/ Is401(LastExchange) /\ RaisedAuthenticationError
OnlyTwoKindsEscape ==
    client.result.kind = "raise"
        => client.result.exc \in {"WUGAPIException", "WUGAuthenticationError"}

C31_NotModifiedReturned ==
    /\ RequestOver
    /\ TargetCalls = 1
    /\ LastExchange = Response(304, NotJson)
    /\ client.result = Json(EmptyDict)


(***************************************************************************)
(* Properties of the listings (SpecListing)                                *)
(***************************************************************************)
\* the device list of the remote side, as the listing call got it
RemoteList(http) ==
    IF http.body.type = "dict" THEN http.body.d.devices ELSE http.body.l
DeviceListingsDone ==
    {i \in 1..Len(returned) :
        returned[i].method = "get_devices" /\ returned[i].http.kind = "json"}
DetailFailed(h, j) == h.details[j].kind = "raise"

\* C32: get_devices(include_details=true) returns one entry per device of the
\* remote list, in list order, whichever detail lookups fail: an entry whose
\* lookup failed is the remote entry unchanged, and no failure of a lookup
\* turns the listing into an exception.
C32_OneEntryPerDevice ==
    \A i \in DeviceListingsDone :
        LET h == returned[i]
            remote == RemoteList(h.http)
        IN  /\ h.result.kind = "return"
            /\ h.result.value.type = "list"
            /\ Len(h.result.value.l) = Len(remote)
            /\ \A j \in 1..Len(remote) :
                  /\ h.result.value.l[j].name = remote[j].name
                  /\ DetailFailed(h, j) => h.result.value.l[j] = remote[j]

\* a listing of two devices: the lookup of the first fails, the second is
\* merged with its detail
C32_Witness ==
    \E i \in DeviceListingsDone :
        LET h == returned[i]
        IN  /\ h.http = Json(PyList(<<DevA, DevB>>))
            /\ h.details[1] = Raise("WUGAPIException")
            /\ h.details[2] = Json(PyDict([vendor |-> "v"]))
            /\ h.result = Return(PyList(<<DevA,
                                [deviceId |-> "w2", name |-> "b", vendor |-> "v"]>>))


GroupListingsDone ==
    {i \in 1..Len(returned) :
        returned[i].method = "get_device_groups" /\ returned[i].http.kind = "json"}
IsEnvelope(http) ==
    /\ http.body.type = "dict"
    /\ "data" \in DOMAIN http.body.d
    /\ "groups" \in DOMAIN http.body.d.data

\* C33: get_device_groups returns the groups of the remote side when the
\* response is the envelope {data: {groups: G}}, namely G, and when it is a
\* bare list, namely that list.
C33_GroupsOfEnvelopeOrList ==
    \A i \in GroupListingsDone :
        LET h == returned[i]
        IN  /\ IsEnvelope(h.http)
                => h.result = Return(PyList(h.http.body.d.data.groups))
            /\ h.http.body.type = "list" => h.result = Return(h.http.body)

\* the envelope {data: {groups: G}} with two groups gives the empty list
C33_Witness ==
    \E i \in GroupListingsDone :
        /\ returned[i].http = Json(PyDict([data |-> [groups |-> Groups]]))
        /\ returned[i].result = Return(PyList(<<>>))

\* a bare list of two groups is returned as it is
C33_BareListReturned ==
    \E i \in GroupListingsDone :
        /\ returned[i].http = Json(PyList(Groups))
        /\ returned[i].result = Return(PyList(Groups))

(***************************************************************************)
(* Properties of the WUGDevice row after a push (SpecPush)                 *)
(***************************************************************************)
\* the outcome of the push as its own WUGSyncLog records it
PushOutcome == NetboxToWugLogs[Len(NetboxToWugLogs)].status
PushedOnExisting == Pushed /\ push.before # {}
\* the rows of the pair that were there before the push
KeptRows == {r \in PushRows : r.pk \in {b.pk : b \in push.before}}

\* C35: after a push on a pair that already has a WUGDevice, the row's
\* sync_status is success exactly when the push succeeded: it is not success
\* after a push that reported failure or raised an exception
C35_StatusReflectsOutcome ==
    PushedOnExisting
        => \A r \in KeptRows :
                (r.sync_status = "success") <=> (PushOutcome = "completed")

\* the client raised during the push of a device whose row says success, and
\* the row still says success
C35_Witness ==
    /\ PushedOnExisting
    /\ AddRaised
    /\ PushOutcome = "error"
    /\ \E r \in KeptRows : r.sync_status = "success"

\* C37: after a successful push of device 1 with an address, the WUGDevice
\* of the pair records the pushed IP and the device's name, also when the
\* row was there before the push with another IP
C37_RowRecordsPushedIpAndName ==
    (Pushed /\ PushOutcome = "completed")
        => \A r \in PushRows :
                /\ r.ip_address = PushedIp
                /\ r.device_name = push.inst.name

\* a successful push with a new address has left the row with the old one
C37_Witness ==
    /\ PushedOnExisting
    /\ PushOutcome = "completed"
    /\ \E r \in KeptRows : r.ip_address # PushedIp /\ r.sync_status = "success"

\* the rows of the pair the push created
CreatedRows == PushRows \ KeptRows

\* C38: the WUGSyncLog of a push has devices_created = 1 only if the push
\* created a WUGDevice; a push that found and updated an existing WUGDevice
\* never reports devices_created = 1
C38_CreatedCountMeansRowCreated ==
    Pushed
        => \A i \in 1..Len(NetboxToWugLogs) :
                NetboxToWugLogs[i].devices_created = 1
                    => CreatedRows # {} /\ push.before = {}

\* a first push created the row and logged devices_created = 1, a second
\* push updated that row and logged devices_updated = 1
C38_Witness ==
    /\ PushedOnExisting
    /\ PushOutcome = "completed"
    /\ CreatedRows = {}
    /\ NetboxToWugLogs[Len(NetboxToWugLogs)].devices_created = 0
    /\ NetboxToWugLogs[Len(NetboxToWugLogs)].devices_updated = 1
    /\ push.logs[1].devices_created = 1

(***************************************************************************)
(* Properties of two handlers at once (SpecRace)                           *)
(***************************************************************************)
\* C34: when two save events of the same device are handled at once for the
\* same connection, the pair never has more than one WUGDevice row
C34_AtMostOneRowPerPair == Cardinality(PairRows(push.wug, 1, 1)) <= 1

\* two handlers whose lookups overlapped have both finished
C34_Witness ==
    /\ push.overlapped
    /\ push.finished >= 2
    /\ \A t \in Threads : push.threads[t].pc = "idle"
    /\ PairRows(push.wug, 1, 1) # {}

SameInstant ==
    /\ client.now = client.entry.now
    /\ client.microsecond = client.entry.microsecond

\* C39: right after a successful _authenticate the stored token is not
\* expired, whatever expires_in the response stated; a request that begins
\* with a token granted at that very time is sent without authenticating
\* again
C39_FreshTokenNotExpired ==
    /\ (Authenticated /\ SameInstant) => ~_is_token_expired(client)
    /\ (InRequest /\ client.ticks = 0 /\ Truthy(client.entry.token) /\ ~Got401)
            => client.auths = 0

\* the second request begins at the time the first one was granted its
\* token, finds the token expired and authenticates again
C39_Witness ==
    /\ client.requests = 2
    /\ client.ticks = 0
    /\ Truthy(client.entry.token)
    /\ client.entry.token_expires <= client.entry.now
    /\ client.auths = 1
    /\ ~Got401

\* a token whose lifetime is longer than 60 seconds is reused by the next
\* request
C39_LongerLifetimeReused ==
    /\ client.requests = 2
    /\ client.ticks = 0
    /\ Truthy(client.entry.token)
    /\ client.entry.token_expires = client.entry.now + 1
    /\ client.auths = 0
    /\ RequestOver

====
